---- MODULE Spec2Model ----
(***************************************************************************)
(* A model of the chunked transfer engine (src/helpers/transfer.py) and of *)
(* the memory monitor (src/memory_monitor.py).                             *)
(*                                                                         *)
(* Byte counts are plain integers (bytes).  Memory figures are integers in *)
(* hundredths of a megabyte, the resolution get_memory_info rounds to.     *)
(***************************************************************************)
EXTENDS Integers, Sequences, FiniteSets, TLC

VARIABLES
    cef,                \* the CacheEvictingFile object (one instance)
    dl,                 \* the frame of one download_media_streaming call
    ul,                 \* the frame of one upload_media_streaming call
    operation_history,  \* MemoryMonitor.operation_history, oldest entry first
    last_memory_mb,     \* MemoryMonitor.last_memory_mb
    now,                \* the wall clock datetime.now() reads
    appended,           \* every entry ever appended to the history, in order
    last,               \* what the latest log_memory_snapshot call did
    periodic,           \* what the latest iteration of periodic_monitor did
    endpoint,           \* what the latest get_memory_state_for_endpoint call did
    tasks,              \* the frames of the asyncio tasks that call the monitor
    sampled             \* the latest sample a log_memory_snapshot call took

tvars == <<cef, dl, ul>>

kvars == <<tasks, sampled>>

mvars == <<operation_history, last_memory_mb, now, appended, last, periodic, endpoint,
           tasks, sampled>>

vars == <<cef, dl, ul, operation_history, last_memory_mb, now, appended, last,
          periodic, endpoint, tasks, sampled>>

(***************************************************************************)
(* Program constants and bounds                                            *)
(***************************************************************************)

\* chunk_size = 524288 (download) and the chunk_size default of CacheEvictingFile
chunk_size == 524288

\* capacity of the write buffer of the object open(file, 'wb') returns
buffer_size == 8192

\* the largest remote object or local file, in chunks
MaxChunks == 4

\* read calls made on one CacheEvictingFile
MaxReads == 5

\* failing posix_fadvise calls during one transfer
MaxEvictFail == 2

Min(a, b) == IF a < b THEN a ELSE b

Max(a, b) == IF a < b THEN b ELSE a

\* lengths of files and remote objects: whole chunks, with or without a short tail
Sizes == {k * chunk_size + r : k \in 0..MaxChunks, r \in {0, 100}} \ {MaxChunks * chunk_size + 100}

\* the size argument of read(): -1 (everything), a part, half a part, a few bytes
ReadSizes == {-1, chunk_size, chunk_size \div 2, 100}

NoEvict == [off |-> 0, len |-> 0, ok |-> TRUE, flushed |-> 0, at |-> "none"]

(***************************************************************************)
(* The eviction rule shared by read() and the download loop                *)
(***************************************************************************)

\* a plausible slip: > instead of >=
ShouldEvictStrict(has_fadvise, transferred, cursor) ==
    has_fadvise /\ (transferred - cursor) > chunk_size

\* "if has_fadvise and (downloaded_bytes - last_evicted_offset) >= chunk_size"
ShouldEvict(has_fadvise, transferred, cursor) ==
    has_fadvise /\ (transferred - cursor) >= chunk_size

\* a plausible slip: the cursor rounded up to the next chunk boundary
CursorAlignedUp(cursor, transferred, ok) ==
    IF ok THEN ((transferred + chunk_size - 1) \div chunk_size) * chunk_size ELSE cursor

\* "last_evicted_offset = downloaded_bytes" inside the try: skipped when
\* os.posix_fadvise raised OSError
CursorAfterEvict(cursor, transferred, ok) ==
    IF ok THEN transferred ELSE cursor

\* "final eviction of any remaining cached data":
\* if has_fadvise and last_evicted_offset < total
ShouldEvictTail(has_fadvise, transferred, cursor) ==
    has_fadvise /\ cursor < transferred

(***************************************************************************)
(* CacheEvictingFile                                                       *)
(***************************************************************************)

CefNone ==
    [state |-> "none", size |-> 0, pos |-> 0, has_fadvise |-> FALSE,
     last_evicted_offset |-> 0, total_read |-> 0,
     reads |-> 0, last_arg |-> 0, last_data |-> 0, seeks |-> 0,
     evict_calls |-> 0, evict_fail |-> 0, last_evict |-> NoEvict,
     close_calls |-> 0, close_evicts |-> 0, raised |-> "none"]

\* __init__: open the file, cursor and counter at 0, probe os.posix_fadvise
CefNew(size, fadv) ==
    [CefNone EXCEPT !.state = "open", !.size = size, !.has_fadvise = fadv]

\* file.read(size) of a regular file: up to size bytes, all that is left for -1
FileRead(left, size) == IF size < 0 THEN left ELSE Min(size, left)

\* a plausible slip: no except OSError around the hint
CefReadEvictRaises(c, size, ok) ==
    LET n     == FileRead(c.size - c.pos, size)
        total == c.total_read + n
        evict == ShouldEvict(c.has_fadvise, total, c.last_evicted_offset)
    IN  IF n > 0 /\ c.has_fadvise /\ evict /\ ~ok
        THEN [c EXCEPT !.pos = @ + n, !.total_read = total, !.reads = @ + 1,
                       !.last_arg = size, !.last_data = 0,
                       !.evict_calls = @ + 1, !.evict_fail = @ + 1,
                       !.last_evict = [off |-> c.last_evicted_offset,
                                       len |-> total - c.last_evicted_offset,
                                       ok |-> FALSE, flushed |-> c.size, at |-> "read"],
                       !.raised = "OSError"]
        ELSE [c EXCEPT !.pos = @ + n, !.reads = @ + 1,
                       !.last_arg = size, !.last_data = n,
                       !.total_read = IF n > 0 /\ c.has_fadvise THEN total ELSE @,
                       !.evict_calls = IF n > 0 /\ evict THEN @ + 1 ELSE @,
                       !.last_evict = IF n > 0 /\ evict
                                      THEN [off |-> c.last_evicted_offset,
                                            len |-> total - c.last_evicted_offset,
                                            ok |-> TRUE, flushed |-> c.size, at |-> "read"]
                                      ELSE @,
                       !.last_evicted_offset = IF n > 0 /\ evict THEN total ELSE @]

\* read(size), the object after the call; ok: whether os.posix_fadvise succeeds
CefRead(c, size, ok) ==
    LET n     == FileRead(c.size - c.pos, size)
        total == c.total_read + n
        evict == n > 0 /\ ShouldEvict(c.has_fadvise, total, c.last_evicted_offset)
    IN  [c EXCEPT !.pos = @ + n, !.reads = @ + 1,
                  !.last_arg = size, !.last_data = n,
                  !.total_read = IF n > 0 /\ c.has_fadvise THEN total ELSE @,
                  !.evict_calls = IF evict THEN @ + 1 ELSE @,
                  !.evict_fail  = IF evict /\ ~ok THEN @ + 1 ELSE @,
                  !.last_evict  = IF evict
                                  THEN [off |-> c.last_evicted_offset,
                                        len |-> total - c.last_evicted_offset,
                                        ok |-> ok, flushed |-> c.size, at |-> "read"]
                                  ELSE @,
                  !.last_evicted_offset =
                      IF evict THEN CursorAfterEvict(@, total, ok) ELSE @]

\* close(): the hint for the tail (the cursor is left as it is), then file.close().
\* On a second call the descriptor is stale: the hint fails with EBADF, or lands on
\* whatever file took the number; either way the OSError is swallowed.
CefClose(c, ok) ==
    LET evict == ShouldEvictTail(c.has_fadvise, c.total_read, c.last_evicted_offset)
    IN  [c EXCEPT !.state = "closed", !.close_calls = @ + 1,
                  !.evict_calls  = IF evict THEN @ + 1 ELSE @,
                  !.close_evicts = IF evict THEN @ + 1 ELSE @,
                  !.evict_fail   = IF evict /\ ~ok THEN @ + 1 ELSE @,
                  !.last_evict   = IF evict
                                   THEN [off |-> c.last_evicted_offset,
                                         len |-> c.total_read - c.last_evicted_offset,
                                         ok |-> ok, flushed |-> c.size, at |-> "close"]
                                   ELSE @]

\* whether the hint may fail once more within the bound
MayFail(fails, ok) == ok \/ fails < MaxEvictFail

Idle == cef.state = "none" /\ dl.pc = "idle" /\ ul.pc = "idle"

\* CacheEvictingFile(file_path, 'rb') built by a caller of the class
CefOpen ==
    /\ Idle
    /\ \E size \in Sizes, fadv \in BOOLEAN : cef' = CefNew(size, fadv)
    /\ UNCHANGED <<dl, ul, mvars>>

\* f.read(size) by the owner of the object (a direct caller, or the uploader of the
\* fallback path)
CefReadCall ==
    /\ cef.state = "open"
    /\ ul.pc \in {"idle", "fallback"}
    /\ cef.reads < MaxReads
    /\ \E size \in ReadSizes, ok \in BOOLEAN :
          /\ MayFail(cef.evict_fail, ok)
          /\ cef' = CefRead(cef, size, ok)
    /\ UNCHANGED <<dl, ul, mvars>>

\* f.seek(0): rewinds the file, the counters are not touched
CefSeek ==
    /\ cef.state = "open"
    /\ ul.pc \in {"idle", "fallback"}
    /\ cef.pos > 0
    /\ cef.seeks < 1
    /\ cef' = [cef EXCEPT !.pos = 0, !.seeks = @ + 1]
    /\ UNCHANGED <<dl, ul, mvars>>

\* f.close() by a direct caller: once, or once more on the closed object
CefCloseCall ==
    /\ cef.state \in {"open", "closed"}
    /\ ul.pc = "idle"
    /\ cef.close_calls < 2
    /\ \E ok \in BOOLEAN :
          /\ MayFail(cef.evict_fail, ok)
          /\ cef' = CefClose(cef, ok)
    /\ UNCHANGED <<dl, ul, mvars>>

(***************************************************************************)
(* download_media_streaming                                                *)
(***************************************************************************)

DlIdle ==
    [pc |-> "idle", file_size |-> 0, cb |-> FALSE, has_fadvise |-> FALSE,
     remaining |-> 0, downloaded_bytes |-> 0, last_evicted_offset |-> 0,
     created |-> FALSE, fd_open |-> FALSE, buffered |-> 0, on_disk |-> 0,
     requested |-> 0, chunks |-> 0, progress |-> <<>>,
     loop_evicts |-> 0, final_evicts |-> 0, evict_fail |-> 0, last_evict |-> NoEvict,
     error |-> "none", logged |-> FALSE, result |-> "none"]

\* f.write(chunk) on the buffered writer: a chunk that fits the free room of the
\* buffer stays in the process; otherwise the buffer is flushed first and the chunk
\* goes to the file when it is larger than the buffer, into the buffer when not.
\* Returns <<bytes buffered, bytes in the file>>.
WriteBuffered(buffered, on_disk, n) ==
    IF n <= buffer_size - buffered
    THEN <<buffered + n, on_disk>>
    ELSE IF n > buffer_size
         THEN <<0, on_disk + buffered + n>>
         ELSE <<n, on_disk + buffered>>

\* a plausible slip: the chunk's length reported instead of the running total
ProgressArgChunkLen(downloaded_bytes, n) == n

\* progress_callback(downloaded_bytes, file_size): the first argument
ProgressArg(downloaded_bytes, n) == downloaded_bytes

\* leaving "with open(...) as f": the writer is flushed and the descriptor closed
CloseDest(d) ==
    [d EXCEPT !.fd_open = FALSE, !.on_disk = @ + d.buffered, !.buffered = 0]

\* a plausible slip: the partial file removed when the download fails
DlAbortRemovesPartial(d, err) ==
    [CloseDest(d) EXCEPT !.pc = "raised", !.error = err, !.logged = TRUE,
                         !.created = FALSE, !.on_disk = 0]

\* "except Exception as e: logger.error(...); raise", after the with block closed f
DlAbort(d, err) ==
    [CloseDest(d) EXCEPT !.pc = "raised", !.error = err, !.logged = TRUE]

\* a plausible slip: the destination opened before the payload is looked at
DlEnterOpenFirst(media, size, has_file, cb, fadv, open_ok) ==
    IF ~open_ok
    THEN [DlIdle EXCEPT !.pc = "raised", !.error = "OSError", !.logged = TRUE]
    ELSE IF ~media
    THEN [DlIdle EXCEPT !.pc = "raised", !.error = "ValueError", !.created = TRUE]
    ELSE [DlIdle EXCEPT !.pc = "loop", !.file_size = IF has_file THEN size ELSE 0,
                        !.cb = cb, !.has_fadvise = fadv, !.remaining = size,
                        !.created = TRUE, !.fd_open = TRUE]

\* the call up to the first chunk request: the payload check (before the try), the
\* size, the counters, the capability probe, open(file, 'wb')
DlEnter(media, size, has_file, cb, fadv, open_ok) ==
    IF ~media
    THEN [DlIdle EXCEPT !.pc = "raised", !.error = "ValueError"]
    ELSE IF ~open_ok
    THEN [DlIdle EXCEPT !.pc = "raised", !.error = "OSError", !.logged = TRUE]
    ELSE [DlIdle EXCEPT !.pc = "loop", !.file_size = IF has_file THEN size ELSE 0,
                        !.cb = cb, !.has_fadvise = fadv, !.remaining = size,
                        !.created = TRUE, !.fd_open = TRUE]

\* one pass of the loop body for a chunk of n bytes: write, count, hint, progress
DlChunk(d, n, ok) ==
    LET w       == WriteBuffered(d.buffered, d.on_disk, n)
        written == d.downloaded_bytes + n
        evict   == ShouldEvict(d.has_fadvise, written, d.last_evicted_offset)
    IN  [d EXCEPT !.requested = @ + 1, !.chunks = @ + 1, !.remaining = @ - n,
                  !.buffered = w[1], !.on_disk = w[2],
                  !.downloaded_bytes = written,
                  !.loop_evicts = IF evict THEN @ + 1 ELSE @,
                  !.evict_fail  = IF evict /\ ~ok THEN @ + 1 ELSE @,
                  !.last_evict  = IF evict
                                  THEN [off |-> d.last_evicted_offset,
                                        len |-> written - d.last_evicted_offset,
                                        ok |-> ok, flushed |-> w[2], at |-> "loop"]
                                  ELSE @,
                  !.last_evicted_offset =
                      IF evict THEN CursorAfterEvict(@, written, ok) ELSE @,
                  !.progress = IF d.cb /\ d.file_size > 0
                               THEN Append(@, ProgressArg(written, n)) ELSE @]

\* f.write(chunk) raises for a chunk larger than the buffer: the buffer was
\* flushed, part bytes of the chunk reached the file before the raw write failed,
\* and neither the count, the hint nor the progress call runs
DlWriteRaises(d, n, part) ==
    [d EXCEPT !.requested = @ + 1, !.on_disk = @ + d.buffered + part, !.buffered = 0]

\* after the loop: the hint for the tail (the writer not yet flushed), the with
\* block's exit, the log line, return file
DlFinish(d, ok) ==
    LET evict == ShouldEvictTail(d.has_fadvise, d.downloaded_bytes, d.last_evicted_offset)
        e     == [d EXCEPT !.requested = @ + 1,
                           !.final_evicts = IF evict THEN @ + 1 ELSE @,
                           !.evict_fail   = IF evict /\ ~ok THEN @ + 1 ELSE @,
                           !.last_evict   = IF evict
                                            THEN [off |-> d.last_evicted_offset,
                                                  len |-> d.downloaded_bytes - d.last_evicted_offset,
                                                  ok |-> ok, flushed |-> d.on_disk, at |-> "final"]
                                            ELSE @]
    IN  [CloseDest(e) EXCEPT !.pc = "done", !.result = "file"]

\* the lengths the source may give the next chunk: a full part or half a part, and
\* never more than what is left
ChunkLens(left) == {Min(chunk_size, left), Min(chunk_size \div 2, left)}

DownloadStart ==
    /\ Idle
    /\ \E media \in BOOLEAN, size \in Sizes, has_file \in BOOLEAN, cb \in BOOLEAN,
          fadv \in BOOLEAN, open_ok \in BOOLEAN :
          dl' = DlEnter(media, size, has_file, cb, fadv, open_ok)
    /\ UNCHANGED <<cef, ul, mvars>>

\* the source yields a chunk and the loop body runs to its end
DownloadChunk ==
    /\ dl.pc = "loop"
    /\ dl.remaining > 0
    /\ \E n \in ChunkLens(dl.remaining), ok \in BOOLEAN :
          /\ MayFail(dl.evict_fail, ok)
          /\ dl' = DlChunk(dl, n, ok)
    /\ UNCHANGED <<cef, ul, mvars>>

\* the source yields a chunk, the loop body runs and the progress callback raises
DownloadCallbackRaises ==
    /\ dl.pc = "loop"
    /\ dl.remaining > 0
    /\ dl.cb /\ dl.file_size > 0
    /\ \E n \in ChunkLens(dl.remaining), ok \in BOOLEAN :
          /\ MayFail(dl.evict_fail, ok)
          /\ dl' = DlAbort(DlChunk(dl, n, ok), "CallbackError")
    /\ UNCHANGED <<cef, ul, mvars>>

\* client.iter_download raises instead of yielding
DownloadSourceRaises ==
    /\ dl.pc = "loop"
    /\ dl.remaining > 0
    /\ dl' = DlAbort([dl EXCEPT !.requested = @ + 1], "SourceError")
    /\ UNCHANGED <<cef, ul, mvars>>

\* the source yields a chunk and f.write(chunk) raises (the disk is full, say)
DownloadWriteRaises ==
    /\ dl.pc = "loop"
    /\ dl.remaining > 0
    /\ \E n \in ChunkLens(dl.remaining), part \in {0, 4096} :
          /\ n > buffer_size
          /\ dl' = DlAbort(DlWriteRaises(dl, n, part), "WriteError")
    /\ UNCHANGED <<cef, ul, mvars>>

\* the source is exhausted
DownloadFinish ==
    /\ dl.pc = "loop"
    /\ dl.remaining = 0
    /\ \E ok \in BOOLEAN :
          /\ MayFail(dl.evict_fail, ok)
          /\ dl' = DlFinish(dl, ok)
    /\ UNCHANGED <<cef, ul, mvars>>

(***************************************************************************)
(* upload_media_streaming                                                  *)
(***************************************************************************)

UlIdle ==
    [pc |-> "idle", parallel_calls |-> 0, fallback_calls |-> 0, opened |-> 0,
     uploaded |-> FALSE, cache_drops |-> 0, early_drops |-> 0,
     error |-> "none", logged |-> FALSE, result |-> "none"]

\* helpers.files._drop_file_cache(file_path): the cache drop over the whole file;
\* early_drops counts the drops issued while no uploader has returned
DropFileCache(u) ==
    [u EXCEPT !.cache_drops = @ + 1,
              !.early_drops = IF u.uploaded THEN @ ELSE @ + 1]

\* "result = await ...upload_file(...)": the uploader returned the handle
UlUploaded(u) == [u EXCEPT !.uploaded = TRUE]

\* a plausible slip: the cache dropped before the uploader is awaited
UlFinishDropFirst(u) ==
    [UlUploaded(DropFileCache(u)) EXCEPT !.pc = "done", !.result = "handle"]

\* the tail of either path: the uploader returns, then _drop_file_cache, the log
\* line, return result
UlFinish(u) ==
    [DropFileCache(UlUploaded(u)) EXCEPT !.pc = "done", !.result = "handle"]

\* the call up to the uploader: the existence check (before the try), then
\* "import FastTelethon" and FastTelethon.upload_file, or on ImportError the
\* CacheEvictingFile and client.upload_file
UlEnter(exists, fast) ==
    IF ~exists
    THEN [UlIdle EXCEPT !.pc = "raised", !.error = "FileNotFoundError"]
    ELSE IF fast
    THEN [UlIdle EXCEPT !.pc = "parallel", !.parallel_calls = 1]
    ELSE [UlIdle EXCEPT !.pc = "fallback", !.fallback_calls = 1, !.opened = 1]

UploadStart ==
    /\ Idle
    /\ \E exists \in BOOLEAN, fast \in BOOLEAN, size \in Sizes, fadv \in BOOLEAN :
          /\ ul' = UlEnter(exists, fast)
          /\ cef' = IF ul'.pc = "fallback" THEN CefNew(size, fadv) ELSE cef
    /\ UNCHANGED <<dl, mvars>>

\* FastTelethon.upload_file returns: the cache drop, the log line, return result
UploadParallelDone ==
    /\ ul.pc = "parallel"
    /\ ul' = UlFinish(ul)
    /\ UNCHANGED <<cef, dl, mvars>>

\* FastTelethon.upload_file (or the progress callback it awaits) raises an error
\* other than ImportError: "except Exception" logs it and re-raises
UploadParallelRaises ==
    /\ ul.pc = "parallel"
    /\ ul' = [ul EXCEPT !.pc = "raised", !.error = "UploadError", !.logged = TRUE]
    /\ UNCHANGED <<cef, dl, mvars>>

\* an ImportError raised inside the try block after the import succeeded (a lazy
\* import of the uploader or of the callback): "except ImportError" takes it
UploadParallelImportError ==
    /\ ul.pc = "parallel"
    /\ \E size \in Sizes, fadv \in BOOLEAN :
          /\ ul' = [ul EXCEPT !.pc = "fallback", !.fallback_calls = @ + 1, !.opened = @ + 1]
          /\ cef' = CefNew(size, fadv)
    /\ UNCHANGED <<dl, mvars>>

\* client.upload_file returns after reading the file to its end: the with block
\* closes the CacheEvictingFile, then the cache drop, the log line, return result
UploadFallbackDone ==
    /\ ul.pc = "fallback"
    /\ cef.state = "open" /\ cef.pos = cef.size
    /\ \E ok \in BOOLEAN :
          /\ MayFail(cef.evict_fail, ok)
          /\ cef' = CefClose(cef, ok)
    /\ ul' = UlFinish(ul)
    /\ UNCHANGED <<dl, mvars>>

\* client.upload_file raises: the with block closes the CacheEvictingFile and the
\* error leaves the "except ImportError" handler as it is (no sibling handler of
\* the same try statement sees it)
UploadFallbackRaises ==
    /\ ul.pc = "fallback"
    /\ cef.state = "open"
    /\ \E ok \in BOOLEAN :
          /\ MayFail(cef.evict_fail, ok)
          /\ cef' = CefClose(cef, ok)
    /\ ul' = [ul EXCEPT !.pc = "raised", !.error = "UploadError"]
    /\ UNCHANGED <<dl, mvars>>

(***************************************************************************)
(* MemoryMonitor                                                           *)
(***************************************************************************)

\* self.memory_threshold_mb = 400
memory_threshold_mb == 400

\* self.spike_threshold_mb = 50
spike_threshold_mb == 50

\* "if memory_to_check > 480"
critical_mb == 480

\* "if memory_to_check < 400: return" in _write_to_memory_log, and
\* "memory_to_check >= 400" of the periodic snapshot
log_floor_mb == 400

\* deque(maxlen=20)
max_history == 20

\* round(x, 2): memory figures are kept in hundredths of a megabyte
Scale == 100

\* log_memory_snapshot calls in one behaviour of the alerting model
MaxCalls == 2

\* log_memory_snapshot calls in one behaviour of the history model
MaxRingCalls == 22

\* seconds the clock advances in one behaviour
MaxTicks == 2

\* iterations of periodic_monitor in one behaviour of the periodic model
MaxIterations == 1

\* requests of the /memory-debug endpoint in one behaviour of the periodic model
MaxRequests == 1

\* errors raised inside iterations of periodic_monitor in one behaviour
MaxErrors == 1

\* iterations of periodic_monitor in one behaviour of the loop model
MaxLoopIterations == 2

\* log_memory_snapshot calls made before the tasks of the task model start
Prefilled == 19

\* cgroup_mb absent from the sample (no container interface could be read)
NoCgroup == -1

\* Python's round(): the quotient num / den rounded to the nearest integer, a tie
\* to the even one
RoundHalfEven(num, den) ==
    LET q == num \div den
        r == num % den
    IN  IF 2 * r < den THEN q
        ELSE IF 2 * r > den THEN q + 1
        ELSE IF q % 2 = 0 THEN q ELSE q + 1

\* get_memory_info (with _get_cgroup_memory_mb) for a process of rss_kib KiB of
\* resident memory in a container whose usage file reads cg_kib KiB, NoCgroup
\* when neither file exists or the read failed.  The page-cache figure subtracts
\* the unrounded resident figure from the rounded container figure.
get_memory_info(rss_kib, cg_kib) ==
    LET rss == RoundHalfEven(rss_kib * Scale, 1024)
        cg  == RoundHalfEven(cg_kib * Scale, 1024)
    IN  IF cg_kib = NoCgroup
        THEN [rss_mb |-> rss, has_cgroup |-> FALSE, cgroup_mb |-> 0, page_cache_mb |-> 0]
        ELSE [rss_mb |-> rss, has_cgroup |-> TRUE, cgroup_mb |-> cg,
              page_cache_mb |-> RoundHalfEven(cg * 1024 - rss_kib * Scale, 1024)]

\* resident memory the process may have, in KiB: about 100, 160, 420 and 500 MB
RssKiB == {102460, 160 * 1024, 420 * 1024, 500 * 1024}

\* container usage, in KiB: none, 90, 400 and 490 MB
CgKiB == {NoCgroup, 90 * 1024, 400 * 1024, 490 * 1024}

Samples == {get_memory_info(r, c) : r \in RssKiB, c \in CgKiB}

\* the samples a gated log write may take: below the floor and above it, without
\* a container figure and with one on the other side of the floor
GateSamples ==
    {get_memory_info(102460, NoCgroup), get_memory_info(420 * 1024, NoCgroup),
     get_memory_info(102460, 400 * 1024), get_memory_info(420 * 1024, 90 * 1024)}

\* the labels callers pass as operation
Ops == {"Periodic Check", "Download Started"}

\* a plausible slip: the resident figure taken whatever the sample holds
memory_to_check_resident(mem) == mem.rss_mb

\* mem.get('cgroup_mb', mem['rss_mb'])
memory_to_check(mem) == IF mem.has_cgroup THEN mem.cgroup_mb ELSE mem.rss_mb

\* round(mem['rss_mb'], 1), still in hundredths
Round1(x) == RoundHalfEven(x, 10) * 10

\* a plausible slip: the newest entry dropped when the ring is full
HistoryAppendDropNewest(h, e) == IF Len(h) >= max_history THEN h ELSE Append(h, e)

\* deque(maxlen=20).append(e): the oldest entry falls out of a full ring
HistoryAppend(h, e) ==
    IF Len(h) >= max_history THEN Append(Tail(h), e) ELSE Append(h, e)

\* list(self.operation_history)[-k:]
LastK(h, k) == SubSeq(h, Max(1, Len(h) - k + 1), Len(h))

\* a plausible slip: one if/elif chain from critical down to normal
AlertsOneChain(mtc, increase) ==
    IF mtc > critical_mb * Scale THEN {"critical"}
    ELSE IF increase > spike_threshold_mb * Scale THEN {"spike"}
    ELSE IF mtc > memory_threshold_mb * Scale THEN {"high"}
    ELSE {"normal"}

\* the alerts of one call: the critical "if" stands alone, and the chain
\* "if spike / elif high / else" follows it whatever it did
Alerts(mtc, increase) ==
    (IF mtc > critical_mb * Scale THEN {"critical"} ELSE {})
    \cup (IF increase > spike_threshold_mb * Scale THEN {"spike"}
          ELSE IF mtc > memory_threshold_mb * Scale THEN {"high"}
          ELSE {"normal"})

\* _write_to_memory_log(message, force_write): whether the line is appended; the
\* gate reads a sample of its own
WriteGate(force_write, gate) ==
    force_write \/ ~(memory_to_check(gate) < log_floor_mb * Scale)

\* a plausible slip: the spike record written with force_write=True
WritesSpikeForced(operation, mem, alerts, gate) ==
    (IF "critical" \in alerts THEN {"critical"} ELSE {})
    \cup (IF "spike" \in alerts THEN {"spike"} ELSE {})
    \cup (IF "high" \in alerts /\ WriteGate(FALSE, gate) THEN {"high"} ELSE {})
    \cup (IF operation = "Periodic Check"
             /\ memory_to_check(mem) >= log_floor_mb * Scale
             /\ WriteGate(FALSE, gate)
          THEN {"periodic"} ELSE {})

\* a plausible slip: the critical record written through the gate like the others
WritesCriticalGated(operation, mem, alerts, gate) ==
    (IF "critical" \in alerts /\ WriteGate(FALSE, gate) THEN {"critical"} ELSE {})
    \cup (IF "spike" \in alerts /\ WriteGate(FALSE, gate) THEN {"spike"} ELSE {})
    \cup (IF "high" \in alerts /\ WriteGate(FALSE, gate) THEN {"high"} ELSE {})
    \cup (IF operation = "Periodic Check"
             /\ memory_to_check(mem) >= log_floor_mb * Scale
             /\ WriteGate(FALSE, gate)
          THEN {"periodic"} ELSE {})

\* the records of one call that reach the durable log, by kind
Writes(operation, mem, alerts, gate) ==
    (IF "critical" \in alerts THEN {"critical"} ELSE {})
    \cup (IF "spike" \in alerts /\ WriteGate(FALSE, gate) THEN {"spike"} ELSE {})
    \cup (IF "high" \in alerts /\ WriteGate(FALSE, gate) THEN {"high"} ELSE {})
    \cup (IF operation = "Periodic Check"
             /\ memory_to_check(mem) >= log_floor_mb * Scale
             /\ WriteGate(FALSE, gate)
          THEN {"periodic"} ELSE {})

NoCall ==
    [n |-> 0, op |-> "", mem |-> get_memory_info(0, NoCgroup), prev |-> 0,
     gate |-> get_memory_info(0, NoCgroup),
     alerts |-> {}, writes |-> {}, critical_dump |-> <<>>, spike_dump |-> <<>>,
     returned |-> get_memory_info(0, NoCgroup)]

\* log_memory_snapshot(operation, context) as one step: mem is the sample the call
\* takes first, gate the sample its gated log writes take afterwards
log_memory_snapshot(operation, mem, gate) ==
    LET snapshot == [ts |-> now, op |-> operation, rss |-> Round1(mem.rss_mb)]
        history  == HistoryAppend(operation_history, snapshot)
        mtc      == memory_to_check(mem)
        increase == mem.rss_mb - last_memory_mb
        alerts   == Alerts(mtc, increase)
    IN  /\ operation_history' = history
        /\ appended' = Append(appended, snapshot)
        /\ last' = [n |-> last.n + 1, op |-> operation, mem |-> mem,
                    prev |-> last_memory_mb, gate |-> gate, alerts |-> alerts,
                    writes |-> Writes(operation, mem, alerts, gate),
                    critical_dump |-> IF "critical" \in alerts
                                      THEN LastK(history, 5) ELSE <<>>,
                    spike_dump |-> IF "spike" \in alerts /\ WriteGate(FALSE, gate)
                                   THEN LastK(history, 10) ELSE <<>>,
                    returned |-> mem]
        /\ last_memory_mb' = mem.rss_mb
        /\ UNCHANGED now

\* _get_memory_status(mem_info): the label of the diagnostic snapshot
_get_memory_status(mem_info) ==
    LET memory_mb == memory_to_check(mem_info)
    IN  IF memory_mb > critical_mb * Scale THEN "critical"
        ELSE IF memory_mb >= 400 * Scale THEN "high"
        ELSE IF memory_mb >= 300 * Scale THEN "elevated"
        ELSE IF memory_mb >= 200 * Scale THEN "normal"
        ELSE "low"

\* periodic_monitor: "if memory_to_check > self.memory_threshold_mb" on the
\* sample the loop takes after log_memory_snapshot returned
ForceGc(mem) == memory_to_check(mem) > memory_threshold_mb * Scale

NoIteration ==
    [n |-> 0, evaluated |-> get_memory_info(0, NoCgroup),
     decided |-> get_memory_info(0, NoCgroup), gate |-> get_memory_info(0, NoCgroup),
     gc |-> FALSE, collections |-> 0, writes |-> {},
     running |-> TRUE, errors |-> 0, ok |-> TRUE]

\* a plausible slip: the try statement around the loop instead of inside it
LoopAfterErrorExits(p) ==
    [p EXCEPT !.errors = @ + 1, !.ok = FALSE, !.running = FALSE]

\* "except Exception as e: self.logger.error(...)" inside "while True": the error
\* is logged and the loop goes back to its sleep
LoopAfterError(p) == [p EXCEPT !.errors = @ + 1, !.ok = FALSE]

\* one pass of the body of periodic_monitor after the sleep:
\* log_memory_snapshot("Periodic Check", ...) on the sample mem, then a sample of
\* the loop's own (decided), the collection and its gated records (gate2)
periodic_iteration(mem, gate, decided, gate2) ==
    /\ log_memory_snapshot("Periodic Check", mem, gate)
    /\ periodic' = [n |-> periodic.n + 1, evaluated |-> mem, decided |-> decided,
                    gate |-> gate2, gc |-> ForceGc(decided),
                    collections |-> IF ForceGc(decided)
                                    THEN periodic.collections + 1
                                    ELSE periodic.collections,
                    writes |-> IF ForceGc(decided) /\ WriteGate(FALSE, gate2)
                               THEN {"gc"} ELSE {},
                    running |-> periodic.running, errors |-> periodic.errors,
                    ok |-> TRUE]

\* the same pass when something in it raises: the sample or the state read at the
\* top of log_memory_snapshot (stage "sample", nothing was done yet), the loop's
\* own get_memory_info (stage "decide", log_memory_snapshot has returned), or
\* gc.collect and the sample after it (stage "collect")
periodic_iteration_raises(stage, mem, gate, decided, gate2) ==
    IF stage = "sample"
    THEN /\ periodic' = LoopAfterError(periodic)
         /\ UNCHANGED <<operation_history, last_memory_mb, now, appended, last>>
    ELSE /\ log_memory_snapshot("Periodic Check", mem, gate)
         /\ periodic' =
               LoopAfterError(
                 IF stage = "decide"
                 THEN [periodic EXCEPT !.n = @ + 1, !.evaluated = mem,
                                       !.gc = FALSE, !.writes = {}]
                 ELSE [periodic EXCEPT !.n = @ + 1, !.evaluated = mem,
                                       !.decided = decided, !.gate = gate2,
                                       !.gc = TRUE, !.collections = @ + 1,
                                       !.writes = IF WriteGate(FALSE, gate2)
                                                  THEN {"gc"} ELSE {}])

NoRequest ==
    [n |-> 0, mem |-> get_memory_info(0, NoCgroup), status |-> "",
     recent_operations |-> <<>>, forced_writes |-> 0]

\* a plausible slip: the whole ring returned, as log_recent_operations prints it
get_memory_state_for_endpoint_ring(mem) ==
    endpoint' = [n |-> endpoint.n + 1, mem |-> mem,
                 status |-> _get_memory_status(mem),
                 recent_operations |-> LastK(operation_history, 20),
                 forced_writes |-> endpoint.forced_writes + 2]

\* get_memory_state_for_endpoint(): the response and the two forced log writes
get_memory_state_for_endpoint(mem) ==
    endpoint' = [n |-> endpoint.n + 1, mem |-> mem,
                 status |-> _get_memory_status(mem),
                 recent_operations |-> LastK(operation_history, 10),
                 forced_writes |-> endpoint.forced_writes + 2]

\* a second passes
Tick ==
    /\ now < MaxTicks
    /\ now' = now + 1
    /\ UNCHANGED <<tvars, operation_history, last_memory_mb, appended, last,
                   periodic, endpoint, kvars>>

\* a caller (track_download, the periodic monitor, ...) takes a snapshot
Snapshot ==
    /\ last.n < MaxCalls
    /\ \E operation \in Ops, mem \in Samples, gate \in GateSamples :
          log_memory_snapshot(operation, mem, gate)
    /\ UNCHANGED <<tvars, periodic, endpoint, kvars>>

\* the same call on a process whose memory stays at its baseline
SnapshotAtBaseline ==
    /\ last.n < MaxRingCalls
    /\ LET mem == get_memory_info(102460, NoCgroup)
       IN  log_memory_snapshot("Download Started", mem, mem)
    /\ UNCHANGED <<tvars, periodic, endpoint, kvars>>

\* what a surge of memory looks like: critical with a spike, critical by the
\* container figure alone, a spike alone
SurgeSamples ==
    {get_memory_info(500 * 1024, NoCgroup), get_memory_info(102460, 490 * 1024),
     get_memory_info(160 * 1024, NoCgroup)}

\* the calls at which memory may surge: early, and once the ring has wrapped
SurgeCalls == {2, 21}

\* the same call while memory surges; the log writer sees the surge or a
\* process back at its baseline
SnapshotSurge ==
    /\ last.n < MaxRingCalls
    /\ last.n + 1 \in SurgeCalls
    /\ \E mem \in SurgeSamples :
          \E gate \in {mem, get_memory_info(102460, NoCgroup)} :
              log_memory_snapshot("Upload Started", mem, gate)
    /\ UNCHANGED <<tvars, periodic, endpoint, kvars>>

\* the samples the periodic loop may see: below and above the watermark, without
\* a container figure and with one on the other side of the watermark
PeriodicSamples ==
    {get_memory_info(102460, NoCgroup), get_memory_info(420 * 1024, NoCgroup),
     get_memory_info(102460, 490 * 1024), get_memory_info(420 * 1024, 90 * 1024)}

\* the periodic monitor wakes up and runs one iteration
PeriodicIteration ==
    /\ periodic.running
    /\ periodic.n < MaxIterations
    /\ \E mem \in PeriodicSamples, gate \in GateSamples,
          decided \in PeriodicSamples, gate2 \in GateSamples :
          periodic_iteration(mem, gate, decided, gate2)
    /\ UNCHANGED <<tvars, endpoint, kvars>>

\* the periodic monitor wakes up and something raises during the iteration
PeriodicIterationRaises ==
    /\ periodic.running
    /\ periodic.n < MaxLoopIterations
    /\ periodic.errors < MaxErrors
    /\ \E stage \in {"sample", "decide", "collect"},
          mem \in PeriodicSamples, decided \in PeriodicSamples :
          /\ stage = "collect" => ForceGc(decided)
          /\ periodic_iteration_raises(stage, mem, mem, decided, decided)
    /\ UNCHANGED <<tvars, endpoint, kvars>>

\* the periodic monitor wakes up and runs one iteration, memory being the same
\* when the log writer samples
PeriodicIterationSteady ==
    /\ periodic.running
    /\ periodic.n < MaxLoopIterations
    /\ \E mem \in PeriodicSamples, decided \in PeriodicSamples :
          periodic_iteration(mem, mem, decided, decided)
    /\ UNCHANGED <<tvars, endpoint, kvars>>

\* the /memory-debug endpoint is requested
EndpointRequest ==
    /\ endpoint.n < MaxRequests
    /\ \E mem \in Samples : get_memory_state_for_endpoint(mem)
    /\ UNCHANGED <<tvars, operation_history, last_memory_mb, now, appended, last,
                   periodic, kvars>>

\* the /memory-debug endpoint is requested at any moment of the history model
EndpointRequestOnRing ==
    /\ endpoint.n < MaxRequests
    /\ \E mem \in {get_memory_info(102460, NoCgroup), get_memory_info(420 * 1024, NoCgroup)} :
          get_memory_state_for_endpoint(mem)
    /\ UNCHANGED <<tvars, operation_history, last_memory_mb, now, appended, last,
                   periodic, kvars>>

(***************************************************************************)
(* The callers of the monitor as tasks of one event loop: two transfer     *)
(* tasks inside log_operation and the periodic monitor.  A task runs until *)
(* it awaits; log_memory_snapshot is a plain function.                     *)
(***************************************************************************)

Tasks == {"t1", "t2", "monitor"}

\* what the tasks may read: a process at its baseline or at 420 MB
TaskSamples == {get_memory_info(102460, NoCgroup), get_memory_info(420 * 1024, NoCgroup)}

TasksIdle ==
    [t \in Tasks |-> [pc |-> IF t = "monitor" THEN "sleep" ELSE "idle",
                      mem_before |-> get_memory_info(0, NoCgroup),
                      mem |-> get_memory_info(0, NoCgroup)]]

\* a plausible slip: an await inside log_memory_snapshot (the sample read in an
\* executor, say), so that a task may be suspended at any position
SuspendedAnywhere(pc) == TRUE

\* the positions at which a task has given control back to the event loop: not
\* started, at "await func(...)", at "await asyncio.sleep(interval)", finished
Suspended(pc) == pc \in {"idle", "await", "sleep", "done", "raised"}

\* the event loop runs task t only while every other task is suspended
MayRun(t) == \A u \in Tasks \ {t} : Suspended(tasks[u].pc)

\* log_operation up to "await func(...)": the sample before the operation
LogOperationStart(t) ==
    /\ t # "monitor"
    /\ tasks[t].pc = "idle"
    /\ MayRun(t)
    /\ \E m \in TaskSamples :
          tasks' = [tasks EXCEPT ![t].pc = "await", ![t].mem_before = m]
    /\ UNCHANGED <<tvars, operation_history, last_memory_mb, now, appended, last,
                   periodic, endpoint, sampled>>

\* func returned: the sample after it, and log_memory_snapshot is called when
\* resident memory changed by more than 10 MB
LogOperationResume(t) ==
    /\ tasks[t].pc = "await"
    /\ MayRun(t)
    /\ \E m \in TaskSamples :
          LET mem_diff == m.rss_mb - tasks[t].mem_before.rss_mb
          IN  tasks' = [tasks EXCEPT ![t].pc =
                           IF mem_diff > 10 * Scale \/ -mem_diff > 10 * Scale
                           THEN "evaluate" ELSE "done"]
    /\ UNCHANGED <<tvars, operation_history, last_memory_mb, now, appended, last,
                   periodic, endpoint, sampled>>

\* func raised: the sample at the error, the log line, raise
LogOperationRaises(t) ==
    /\ tasks[t].pc = "await"
    /\ MayRun(t)
    /\ tasks' = [tasks EXCEPT ![t].pc = "raised"]
    /\ UNCHANGED <<tvars, operation_history, last_memory_mb, now, appended, last,
                   periodic, endpoint, sampled>>

\* asyncio.sleep(interval) returns in periodic_monitor
MonitorWake ==
    /\ tasks["monitor"].pc = "sleep"
    /\ MayRun("monitor")
    /\ periodic.running
    /\ periodic.n < MaxIterations
    /\ tasks' = [tasks EXCEPT !["monitor"].pc = "evaluate"]
    /\ UNCHANGED <<tvars, operation_history, last_memory_mb, now, appended, last,
                   periodic, endpoint, sampled>>

\* "mem = self.get_memory_info()", the first statement of log_memory_snapshot
EvaluateSample(t) ==
    /\ tasks[t].pc = "evaluate"
    /\ MayRun(t)
    /\ \E m \in TaskSamples :
          /\ tasks' = [tasks EXCEPT ![t].pc = "sampled", ![t].mem = m]
          /\ sampled' = [n |-> sampled.n + 1, mem |-> m]
    /\ UNCHANGED <<tvars, operation_history, last_memory_mb, now, appended, last,
                   periodic, endpoint>>

\* the rest of log_memory_snapshot on that sample, and for the periodic monitor
\* the rest of its iteration; memory is the same when the log writer samples
EvaluateCommit(t) ==
    /\ tasks[t].pc = "sampled"
    /\ MayRun(t)
    /\ IF t = "monitor"
       THEN /\ \E decided \in TaskSamples :
                  periodic_iteration(tasks[t].mem, tasks[t].mem, decided, decided)
            /\ tasks' = [tasks EXCEPT ![t].pc = "sleep"]
       ELSE /\ log_memory_snapshot("Download Started", tasks[t].mem, tasks[t].mem)
            /\ tasks' = [tasks EXCEPT ![t].pc = "done"]
            /\ UNCHANGED periodic
    /\ UNCHANGED <<tvars, endpoint, sampled>>

\* a monitor that has made Prefilled calls at the baseline, none of them in the
\* tasks modelled here
InitTasks ==
    LET mem   == get_memory_info(102460, NoCgroup)
        entry == [ts |-> 0, op |-> "Download Started", rss |-> Round1(mem.rss_mb)]
    IN  /\ cef = CefNone
        /\ dl = DlIdle
        /\ ul = UlIdle
        /\ operation_history = [i \in 1..Prefilled |-> entry]
        /\ last_memory_mb = mem.rss_mb
        /\ now = 0
        /\ appended = [i \in 1..Prefilled |-> entry]
        /\ last = [n |-> Prefilled, op |-> "Download Started", mem |-> mem,
                   prev |-> mem.rss_mb, gate |-> mem, alerts |-> {"normal"},
                   writes |-> {}, critical_dump |-> <<>>, spike_dump |-> <<>>,
                   returned |-> mem]
        /\ periodic = NoIteration
        /\ endpoint = NoRequest
        /\ tasks = TasksIdle
        /\ sampled = [n |-> Prefilled, mem |-> mem]

(***************************************************************************)
(* The transfer engine: one transfer, or one file object, per behaviour.   *)
(* The frames share no state, so interleaving several adds nothing.        *)
(***************************************************************************)

Init ==
    /\ cef = CefNone
    /\ dl = DlIdle
    /\ ul = UlIdle
    /\ operation_history = <<>>
    /\ last_memory_mb = 0
    /\ now = 0
    /\ appended = <<>>
    /\ last = NoCall
    /\ periodic = NoIteration
    /\ endpoint = NoRequest
    /\ tasks = TasksIdle
    /\ sampled = [n |-> 0, mem |-> get_memory_info(0, NoCgroup)]

Next ==
    \/ CefOpen
    \/ CefReadCall
    \/ CefSeek
    \/ CefCloseCall
    \/ DownloadStart
    \/ DownloadChunk
    \/ DownloadCallbackRaises
    \/ DownloadSourceRaises
    \/ DownloadWriteRaises
    \/ DownloadFinish
    \/ UploadStart
    \/ UploadParallelDone
    \/ UploadParallelRaises
    \/ UploadParallelImportError
    \/ UploadFallbackDone
    \/ UploadFallbackRaises

Spec == Init /\ [][Next]_vars

(***************************************************************************)
(* The alerting engine: a few calls over every sample                      *)
(***************************************************************************)

NextMonitor ==
    \/ Tick
    \/ Snapshot

SpecMonitor == Init /\ [][NextMonitor]_vars

(***************************************************************************)
(* The history ring: more calls than the ring holds, told apart by the     *)
(* second they were made in                                                *)
(***************************************************************************)

NextRing ==
    \/ Tick
    \/ SnapshotAtBaseline
    \/ SnapshotSurge

SpecRing == Init /\ [][NextRing]_vars

(***************************************************************************)
(* The periodic monitor and the diagnostic endpoint                        *)
(***************************************************************************)

NextPeriodic ==
    \/ PeriodicIteration
    \/ EndpointRequest

SpecPeriodic == Init /\ [][NextPeriodic]_vars

(***************************************************************************)
(* The periodic monitor as a task of the event loop: asyncio.sleep returns *)
(* after the interval and the loop resumes the task, so an iteration that  *)
(* can run does run                                                        *)
(***************************************************************************)

NextLoop ==
    \/ PeriodicIterationSteady
    \/ PeriodicIterationRaises

SpecLoop ==
    /\ Init
    /\ [][NextLoop]_vars
    /\ WF_vars(NextLoop)

(***************************************************************************)
(* The diagnostic endpoint read while the history fills and wraps          *)
(***************************************************************************)

NextEndpoint ==
    \/ Tick
    \/ SnapshotAtBaseline
    \/ EndpointRequestOnRing

SpecEndpoint == Init /\ [][NextEndpoint]_vars

(***************************************************************************)
(* The tasks interleaved by the event loop                                 *)
(***************************************************************************)

NextTasks ==
    \/ \E t \in Tasks : LogOperationStart(t)
    \/ \E t \in Tasks : LogOperationResume(t)
    \/ \E t \in Tasks : LogOperationRaises(t)
    \/ MonitorWake
    \/ \E t \in Tasks : EvaluateSample(t)
    \/ \E t \in Tasks : EvaluateCommit(t)

SpecTasks == InitTasks /\ [][NextTasks]_vars

(***************************************************************************)
(* Properties                                                              *)
(***************************************************************************)

\* C1: after N log_memory_snapshot calls the history ring holds exactly
\* min(N, 20) entries, they are the most recent ones in insertion order (oldest
\* first), and the ring never holds more than 20.
C1_BoundedHistory ==
    LET N == Len(appended)
        k == Len(operation_history)
    IN  /\ k = IF N < 20 THEN N ELSE 20
        /\ k <= 20
        /\ operation_history = SubSeq(appended, N - k + 1, N)

\* more calls than the ring holds, between which the clock moved
C1_RingWrapped ==
    /\ Len(appended) > 20
    /\ Len(operation_history) = 20
    /\ operation_history[1].ts < operation_history[20].ts
    /\ appended[1].ts < operation_history[1].ts

\* C2 as stated: one log_memory_snapshot call takes exactly one of the outcomes
\* critical, spike, high, normal, and never the critical alert together with a
\* spike or a high-usage warning.
C2_ExactlyOneOutcome ==
    last.n > 0 =>
        /\ Cardinality(last.alerts) = 1
        /\ last.alerts \subseteq {"critical", "spike", "high", "normal"}

\* C2 as amended: one call takes exactly one of spike, high, normal, and emits
\* the critical alert besides it exactly when memory_to_check exceeds 480 MB, in
\* which case the outcome of the chain is spike or high; all of it is decided by
\* memory_to_check, the spike and the thresholds alone.
C2_OutcomeOfChain ==
    last.n > 0 =>
        LET mtc   == IF last.mem.has_cgroup THEN last.mem.cgroup_mb ELSE last.mem.rss_mb
            spike == last.mem.rss_mb - last.prev
            a     == last.alerts
        IN  /\ a \subseteq {"critical", "spike", "high", "normal"}
            /\ Cardinality(a \cap {"spike", "high", "normal"}) = 1
            /\ "critical" \in a <=> mtc > 48000
            /\ "critical" \in a => "normal" \notin a /\ Cardinality(a) = 2
            /\ "spike" \in a <=> spike > 5000
            /\ "high" \in a <=> (spike <= 5000 /\ mtc > 40000)

\* a call that was critical and a spike at once
C2_CriticalWithSpike ==
    /\ last.n > 0
    /\ last.alerts = {"critical", "spike"}
    /\ last.mem.rss_mb - last.prev > 5000

\* C3: in every state of a download and of a CacheEvictingFile the eviction
\* cursor is at most the number of bytes transferred.
C3_CursorWithinTransferred ==
    /\ dl.last_evicted_offset <= dl.downloaded_bytes
    /\ cef.last_evicted_offset <= cef.total_read

\* a file object after a failed and a successful hint, with an unevicted tail
C3_CursorBehind ==
    /\ cef.evict_fail > 0
    /\ cef.last_evicted_offset > 0
    /\ cef.last_evicted_offset < cef.total_read

\* C4: after close() returns, every hint having succeeded, the eviction cursor
\* equals the bytes transferred.
C4_CursorAtTotalAfterClose ==
    (cef.state = "closed" /\ cef.evict_fail = 0) =>
        cef.last_evicted_offset = cef.total_read

\* C5: a second close() does not raise and issues no further eviction request:
\* the tail is requested at most once over the two calls.
C5_CloseIdempotent ==
    cef.close_calls = 2 =>
        /\ cef.raised = "none"
        /\ cef.close_evicts <= 1

\* C6: with a progress callback and a known nonzero total size the bytes_done
\* values passed are non-decreasing, one call is made per chunk written, and
\* the last value of a download that returned equals the total size.
C6_ProgressMonotone ==
    (dl.cb /\ dl.file_size > 0) =>
        /\ \A i \in 1..(Len(dl.progress) - 1) : dl.progress[i] <= dl.progress[i + 1]
        /\ Len(dl.progress) = dl.chunks
        /\ dl.pc = "done" =>
              /\ Len(dl.progress) > 0
              /\ dl.progress[Len(dl.progress)] = dl.file_size

\* a finished download of several chunks that reported progress
C6_ProgressReported ==
    /\ dl.pc = "done"
    /\ dl.cb
    /\ dl.file_size > 524288
    /\ Len(dl.progress) >= 3

C7_Issued == dl'.loop_evicts = dl.loop_evicts + 1

C7_Range ==
    /\ dl'.loop_evicts \in {dl.loop_evicts, dl.loop_evicts + 1}
    /\ dl'.final_evicts = dl.final_evicts
    /\ C7_Issued =>
          /\ dl'.last_evict.at = "loop"
          /\ dl'.last_evict.off = dl.last_evicted_offset
          /\ dl'.last_evict.off + dl'.last_evict.len = dl'.downloaded_bytes
          /\ dl'.last_evict.ok => dl'.last_evicted_offset = dl'.downloaded_bytes

C7_FourChunks ==
    <<524288, 1048576, 1572864, 2097152>>

\* C7 as stated: a hint follows a chunk iff (bytes written - cursor) >=
\* chunk_size, covers [cursor, bytes written) and moves the cursor on success;
\* one final hint is issued iff a tail is left; 4 chunks of 512 KiB give the 4
\* progress calls, 4 hints in the loop and no final one.
C7_EvictionRuleAsStated ==
    /\ [][/\ dl'.chunks = dl.chunks + 1 =>
                /\ C7_Issued <=> (dl'.downloaded_bytes - dl.last_evicted_offset >= 524288)
                /\ C7_Range
          /\ (dl.pc = "loop" /\ dl'.pc = "done") =>
                /\ dl'.final_evicts \in {dl.final_evicts, dl.final_evicts + 1}
                /\ dl'.final_evicts = dl.final_evicts + 1
                      <=> dl.last_evicted_offset < dl.downloaded_bytes]_vars
    /\ [](dl.pc = "done" /\ dl.cb /\ dl.file_size = 2097152 /\ dl.chunks = 4 =>
            /\ dl.progress = C7_FourChunks
            /\ dl.loop_evicts = 4
            /\ dl.final_evicts = 0)

\* C7 as amended: where os.posix_fadvise exists, a hint follows a chunk iff
\* (bytes written - cursor) >= chunk_size, covers [cursor, bytes written) and
\* moves the cursor on success, and one final hint is issued iff a tail is
\* left; where it does not exist no hint is ever issued. 4 chunks of 512 KiB
\* give the 4 progress calls and, with the capability, 4 hints in the loop, and
\* no final one when no hint failed.
C7_EvictionRule ==
    /\ [][/\ dl'.chunks = dl.chunks + 1 =>
                /\ C7_Issued <=> (/\ dl.has_fadvise
                                  /\ dl'.downloaded_bytes - dl.last_evicted_offset >= 524288)
                /\ C7_Range
          /\ (dl.pc = "loop" /\ dl'.pc = "done") =>
                /\ dl'.final_evicts \in {dl.final_evicts, dl.final_evicts + 1}
                /\ dl'.final_evicts = dl.final_evicts + 1
                      <=> (dl.has_fadvise /\ dl.last_evicted_offset < dl.downloaded_bytes)]_vars
    /\ [](dl.pc = "done" /\ dl.cb /\ dl.file_size = 2097152 /\ dl.chunks = 4 =>
            /\ dl.progress = C7_FourChunks
            /\ dl.has_fadvise => dl.loop_evicts = 4
            /\ (dl.has_fadvise /\ dl.evict_fail = 0) => dl.final_evicts = 0
            /\ ~dl.has_fadvise => (dl.loop_evicts = 0 /\ dl.final_evicts = 0))

\* the 2 MiB download in 4 chunks, every hint succeeding
C7_FourChunksDone ==
    /\ dl.pc = "done"
    /\ dl.has_fadvise /\ dl.evict_fail = 0 /\ dl.cb
    /\ dl.progress = C7_FourChunks
    /\ dl.loop_evicts = 4
    /\ dl.final_evicts = 0

\* C8: every eviction request of a download for a range [a, b) is issued only
\* after all of [a, b) has left the process's write buffer for the file.
C8_EvictAfterFlush ==
    dl.last_evict.at # "none" =>
        dl.last_evict.off + dl.last_evict.len <= dl.last_evict.flushed

C9_DlIssued ==
    dl'.loop_evicts + dl'.final_evicts > dl.loop_evicts + dl.final_evicts

C9_Covers(new, old) ==
    (old.at # "none" /\ ~old.ok) =>
        /\ new.off <= old.off
        /\ new.off + new.len >= old.off + old.len

\* C9: a failing hint, or a platform without the hint, never aborts a
\* transfer: the download goes on and returns the file with every byte in it,
\* read() returns the data the file gives, a failed call leaves the cursor
\* where it was, and the next request covers the range of the failed one.
C9_EvictionNeverFatal ==
    /\ [][/\ dl'.evict_fail > dl.evict_fail =>
                /\ dl'.last_evicted_offset = dl.last_evicted_offset
                /\ dl'.error \in {"none", "CallbackError"}
                /\ dl'.error = "none" => dl'.pc \in {"loop", "done"}
          /\ C9_DlIssued => C9_Covers(dl'.last_evict, dl.last_evict)
          /\ cef'.evict_fail > cef.evict_fail =>
                /\ cef'.last_evicted_offset = cef.last_evicted_offset
                /\ cef'.raised = "none"
          /\ cef'.evict_calls > cef.evict_calls =>
                C9_Covers(cef'.last_evict, cef.last_evict)
          /\ cef'.reads = cef.reads + 1 =>
                /\ cef'.raised = "none"
                /\ cef'.last_data =
                      IF cef'.last_arg < 0 \/ cef'.last_arg > cef.size - cef.pos
                      THEN cef.size - cef.pos ELSE cef'.last_arg
                /\ cef'.pos = cef.pos + cef'.last_data]_vars
    /\ [](dl.pc = "done" =>
            /\ dl.result = "file" /\ dl.error = "none"
            /\ dl.remaining = 0
            /\ dl.on_disk = dl.downloaded_bytes /\ dl.buffered = 0)

\* a download that returned although hints failed, the last one covering them
C9_DoneDespiteFailures ==
    /\ dl.pc = "done"
    /\ dl.result = "file"
    /\ dl.evict_fail > 0
    /\ dl.last_evict.ok
    /\ dl.on_disk > 524288

\* C10: a message without payload raises before the destination is opened or
\* created and before any chunk is requested; a path that does not exist raises
\* before an uploader is invoked, a file opened or a cache drop issued.
C10_InputErrorsFirst ==
    /\ (dl.pc = "raised" /\ dl.error = "ValueError") =>
          /\ ~dl.created /\ ~dl.fd_open
          /\ dl.requested = 0 /\ dl.chunks = 0
          /\ dl.on_disk = 0 /\ dl.buffered = 0
    /\ (ul.pc = "raised" /\ ul.error = "FileNotFoundError") =>
          /\ ul.parallel_calls = 0 /\ ul.fallback_calls = 0
          /\ ul.opened = 0 /\ ul.cache_drops = 0
          /\ cef.state = "none"

\* a download refused for want of a payload
C10_NoPayloadRaised ==
    /\ dl.pc = "raised"
    /\ dl.error = "ValueError"

\* C11: when the chunk source, the file write or the progress callback raises
\* after k chunks were written, the error that was raised is the one reaching
\* the caller, the destination descriptor is closed, and the file with the k
\* written chunks stays on disk: it is never deleted and never shrinks.
C11_FailureKeepsPartialFile ==
    /\ [][/\ (dl.pc = "loop" /\ dl'.pc = "raised") =>
                /\ dl'.error \in {"SourceError", "WriteError", "CallbackError"}
                /\ ~dl'.fd_open /\ dl'.created /\ dl'.buffered = 0
                /\ dl'.result = "none"
                /\ dl'.error = "SourceError" =>
                      /\ dl'.chunks = dl.chunks
                      /\ dl'.on_disk = dl.downloaded_bytes
                /\ dl'.error = "WriteError" =>
                      /\ dl'.chunks = dl.chunks
                      /\ dl'.downloaded_bytes = dl.downloaded_bytes
                      /\ dl'.on_disk >= dl.downloaded_bytes
                /\ dl'.error = "CallbackError" =>
                      /\ dl'.chunks = dl.chunks + 1
                      /\ dl'.on_disk = dl'.downloaded_bytes
          /\ dl.created => (dl'.created /\ dl'.on_disk >= dl.on_disk)
          /\ dl.pc = "raised" => dl' = dl]_vars
    /\ [](dl.pc = "raised" /\ dl.error \notin {"ValueError", "OSError"} =>
            /\ ~dl.fd_open /\ dl.created
            /\ dl.on_disk >= dl.downloaded_bytes)

\* a write that failed after two chunks had been written
C11_WriteFailedAfterTwoChunks ==
    /\ dl.pc = "raised"
    /\ dl.error = "WriteError"
    /\ dl.chunks = 2
    /\ dl.on_disk >= 2 * 262144
    /\ ~dl.fd_open /\ dl.created

\* C12: whenever the upload returns a handle, by the parallel path or by the
\* fallback, a cache drop over the whole file was issued after the uploader
\* returned and before the call returns, and none was issued before that.
C12_DropAfterUpload ==
    /\ [][ul'.cache_drops > ul.cache_drops =>
             /\ ul.pc \in {"parallel", "fallback"}
             /\ ul'.uploaded
             /\ ul'.early_drops = ul.early_drops
             /\ ul'.pc = "done"]_vars
    /\ [](/\ ul.early_drops = 0
          /\ (ul.pc = "done" /\ ul.result = "handle") =>
                (ul.uploaded /\ ul.cache_drops = 1)
          /\ ul.pc # "done" => ul.cache_drops = 0)

\* the fallback returned the handle after reading the whole file
C12_FallbackReturned ==
    /\ ul.pc = "done"
    /\ ul.result = "handle"
    /\ ul.parallel_calls = 0
    /\ ul.fallback_calls = 1
    /\ cef.state = "closed"
    /\ ul.cache_drops = 1

\* C13: the fallback runs only when the parallel uploader is unavailable: once
\* the parallel upload was started, nothing it raises makes the fallback run.
C13_FallbackOnlyIfUnavailable ==
    ul.fallback_calls > 0 => ul.parallel_calls = 0

\* C14: an error the uploader raises in mid-upload is logged and re-raised,
\* in the parallel path and in the fallback path alike.
C14_UploadErrorLogged ==
    (ul.pc = "raised" /\ ul.error = "UploadError") => ul.logged

\* the figure C15 speaks of: the container's when the sample has it, else the
\* resident one
C15_Figure(m) == IF m.has_cgroup THEN m.cgroup_mb ELSE m.rss_mb

\* C15: evaluate, the write gate of the durable log, the status label and the
\* collection decision of the periodic monitor all decide on the container
\* memory when the sample has it and on the resident memory otherwise.
C15_ContainerElseResident ==
    /\ periodic.n > 0 =>
          /\ last.mem = periodic.evaluated
          /\ "critical" \in last.alerts <=> C15_Figure(last.mem) > 48000
          /\ "high" \in last.alerts <=>
                (C15_Figure(last.mem) > 40000 /\ last.mem.rss_mb - last.prev <= 5000)
          /\ "periodic" \in last.writes <=>
                (C15_Figure(last.mem) >= 40000 /\ C15_Figure(last.gate) >= 40000)
          /\ "high" \in last.alerts =>
                ("high" \in last.writes <=> C15_Figure(last.gate) >= 40000)
          /\ "spike" \in last.alerts =>
                ("spike" \in last.writes <=> C15_Figure(last.gate) >= 40000)
          /\ periodic.gc <=> C15_Figure(periodic.decided) > 40000
          /\ "gc" \in periodic.writes <=>
                (periodic.gc /\ C15_Figure(periodic.gate) >= 40000)
    /\ endpoint.n > 0 =>
          endpoint.status =
              IF C15_Figure(endpoint.mem) > 48000 THEN "critical"
              ELSE IF C15_Figure(endpoint.mem) >= 40000 THEN "high"
              ELSE IF C15_Figure(endpoint.mem) >= 30000 THEN "elevated"
              ELSE IF C15_Figure(endpoint.mem) >= 20000 THEN "normal"
              ELSE "low"

\* every site decided on a container figure that lies on the other side of its
\* threshold than the resident figure
C15_ContainerDecides ==
    /\ periodic.n > 0
    /\ last.mem.has_cgroup /\ last.mem.rss_mb < 40000 /\ "critical" \in last.alerts
    /\ last.gate.has_cgroup /\ last.gate.rss_mb < 40000 /\ "periodic" \in last.writes
    /\ periodic.decided.has_cgroup /\ periodic.decided.rss_mb > 40000 /\ ~periodic.gc
    /\ endpoint.n > 0
    /\ endpoint.mem.has_cgroup /\ endpoint.mem.rss_mb > 48000
    /\ endpoint.status = "low"

\* C16 as stated: whenever the spike exceeds the spike threshold the call emits
\* the spike warning and writes the spike record to the durable log, whatever
\* the level of memory, and does not take the high-watermark branch.
C16_SpikeAlwaysWritten ==
    (last.n > 0 /\ last.mem.rss_mb - last.prev > 5000) =>
        /\ "spike" \in last.alerts
        /\ "spike" \in last.writes
        /\ "high" \notin last.alerts

\* C16 as amended: whenever the spike exceeds the spike threshold the call
\* emits the spike warning and does not take the high-watermark branch; the
\* spike record reaches the durable log exactly when the sample the log writer
\* takes for itself has a memory_to_check of at least 400 MB.
C16_SpikeWrittenThroughGate ==
    (last.n > 0 /\ last.mem.rss_mb - last.prev > 5000) =>
        /\ "spike" \in last.alerts
        /\ "high" \notin last.alerts
        /\ "spike" \in last.writes <=>
              (IF last.gate.has_cgroup THEN last.gate.cgroup_mb
                                       ELSE last.gate.rss_mb) >= 40000
        /\ last.spike_dump # <<>> <=> "spike" \in last.writes

\* resident memory went from 100 MB to 160 MB: a spike warning and no record
C16_SpikeBelowFloor ==
    /\ last.n = 2
    /\ last.prev = 10006
    /\ last.mem.rss_mb = 16000 /\ ~last.mem.has_cgroup
    /\ last.alerts = {"spike"}
    /\ last.writes = {}

\* C17: a sample whose memory_to_check is above 400 MB and not above 480 MB,
\* without a spike, is classified high, its record is written to the durable
\* log (the write decided on the sample that was classified) and no critical
\* alert is emitted.
C17_HighWrittenOnClassifiedSample ==
    LET mtc == IF last.mem.has_cgroup THEN last.mem.cgroup_mb ELSE last.mem.rss_mb
    IN  (/\ last.n > 0
         /\ mtc > 40000 /\ mtc <= 48000
         /\ last.mem.rss_mb - last.prev <= 5000) =>
            /\ last.alerts = {"high"}
            /\ "high" \in last.writes

\* C18: a call that is neither critical nor a spike nor high writes nothing to
\* the durable log, whatever its label, also at exactly 400 MB.
C18_NormalWritesNothing ==
    LET mtc == IF last.mem.has_cgroup THEN last.mem.cgroup_mb ELSE last.mem.rss_mb
    IN  (/\ last.n > 0
         /\ mtc <= 40000
         /\ last.mem.rss_mb - last.prev <= 5000) =>
            /\ last.alerts = {"normal"}
            /\ last.writes = {}

\* C19: a sample whose memory_to_check exceeds 480 MB has its critical record
\* and the last 5 history entries (all of them when there are fewer) written to
\* the durable log whatever the write gate would say, and the call goes on as
\* any other: it has appended its history entry, it has set last_memory_mb to
\* the resident figure of the sample and it returns the sample.
C19_CriticalForcedWrite ==
    LET mtc == IF last.mem.has_cgroup THEN last.mem.cgroup_mb ELSE last.mem.rss_mb
        h   == operation_history
        k   == IF Len(h) < 5 THEN Len(h) ELSE 5
    IN  (last.n > 0 /\ mtc > 48000) =>
            /\ "critical" \in last.alerts
            /\ "critical" \in last.writes
            /\ last.critical_dump = SubSeq(h, Len(h) - k + 1, Len(h))
            /\ Len(last.critical_dump) = k
            /\ Len(appended) = last.n
            /\ h[Len(h)] = appended[last.n]
            /\ h[Len(h)].op = last.op
            /\ last_memory_mb = last.mem.rss_mb
            /\ last.returned = last.mem

\* a critical call on a wrapped ring while the log writer sees a process at its
\* baseline: the record and five entries are written all the same
C19_CriticalOnFullRing ==
    /\ last.n = 21
    /\ Len(operation_history) = 20
    /\ last.mem.has_cgroup /\ last.mem.cgroup_mb > 48000
    /\ ~last.gate.has_cgroup /\ last.gate.rss_mb < 40000
    /\ "critical" \in last.writes
    /\ Len(last.critical_dump) = 5
    /\ last_memory_mb = last.mem.rss_mb

\* C20: an iteration of the periodic monitor forces a collection exactly when
\* the memory_to_check of the sample the iteration evaluated exceeds 400 MB, and
\* nothing but an iteration of the periodic monitor forces a collection.
C20_GcIffEvaluatedSampleHigh ==
    /\ [](periodic.n > 0 =>
            /\ periodic.evaluated = last.mem
            /\ periodic.gc <=>
                  (IF periodic.evaluated.has_cgroup THEN periodic.evaluated.cgroup_mb
                                                    ELSE periodic.evaluated.rss_mb) > 40000)
    /\ [][periodic'.collections # periodic.collections =>
             /\ periodic'.n = periodic.n + 1
             /\ periodic'.collections = periodic.collections + 1]_vars

\* C21: an error raised while an iteration of the periodic monitor samples,
\* evaluates, collects or writes is caught and the loop goes on to its next
\* sleep: the loop never stops, and with the task being scheduled it goes on
\* evaluating samples (up to the number of iterations the model counts).
C21_LoopSurvivesErrors ==
    /\ [](periodic.running)
    /\ [][periodic'.errors > periodic.errors =>
             /\ periodic'.running
             /\ periodic'.errors = periodic.errors + 1
             /\ periodic'.n \in {periodic.n, periodic.n + 1}]_vars
    /\ <>(periodic.n = MaxLoopIterations)

\* an iteration that ran to its end after an error had been caught
C21_EvaluatedAfterError ==
    /\ periodic.errors > 0
    /\ periodic.ok
    /\ periodic.n > 0
    /\ last.n = periodic.n
    /\ periodic.running

\* C22: with the transfer tasks and the periodic monitor interleaved by the
\* event loop a log_memory_snapshot call is never suspended between its sample,
\* its append and its update of last_memory_mb: at most one call is under way,
\* each call appends exactly one entry, and once n calls have completed the
\* history holds min(n, 20) entries and last_memory_mb is the resident figure of
\* the sample taken last.
C22_EvaluateAtomic ==
    /\ [](Cardinality({t \in Tasks : tasks[t].pc \in {"evaluate", "sampled"}}) <= 1)
    /\ []((\A t \in Tasks : tasks[t].pc # "sampled") =>
            /\ last.n = sampled.n
            /\ Len(appended) = sampled.n
            /\ Len(operation_history) = IF sampled.n < 20 THEN sampled.n ELSE 20
            /\ last.mem = sampled.mem
            /\ last_memory_mb = sampled.mem.rss_mb)
    /\ [][last'.n # last.n =>
             /\ last'.n = last.n + 1
             /\ Len(appended') = Len(appended) + 1
             /\ \E t \in Tasks :
                   /\ tasks[t].pc = "sampled"
                   /\ last'.mem = tasks[t].mem
                   /\ sampled.mem = tasks[t].mem]_vars

\* both transfer tasks and the monitor have evaluated, the ring has wrapped, and
\* the call made last saw 420 MB
C22_ThreeCallsInterleaved ==
    /\ sampled.n = Prefilled + 3
    /\ last.n = sampled.n
    /\ Len(operation_history) = 20
    /\ tasks["t1"].pc = "done"
    /\ tasks["t2"].pc = "done"
    /\ periodic.n = 1
    /\ last.op = "Download Started"
    /\ last_memory_mb = 42000

\* C23: get_memory_state_for_endpoint returns the last min(10, len) history
\* entries in the order they were appended, always makes its forced writes to
\* the durable log, and leaves the history and last_memory_mb as they were.
C23_EndpointReadsOnly ==
    [][endpoint'.n # endpoint.n =>
          LET h == operation_history
              k == IF Len(h) < 10 THEN Len(h) ELSE 10
              r == endpoint'.recent_operations
          IN  /\ endpoint'.n = endpoint.n + 1
              /\ Len(r) = k
              /\ \A i \in 1..k : r[i] = h[Len(h) - k + i]
              /\ endpoint'.forced_writes > endpoint.forced_writes
              /\ operation_history' = operation_history
              /\ appended' = appended
              /\ last_memory_mb' = last_memory_mb
              /\ last' = last]_vars

\* the endpoint read on a wrapped ring whose entries were made at different times
C23_TenOfWrappedRing ==
    /\ endpoint.n > 0
    /\ Len(appended) > 20
    /\ Len(operation_history) = 20
    /\ Len(endpoint.recent_operations) = 10
    /\ endpoint.recent_operations = SubSeq(operation_history, 11, 20)
    /\ endpoint.recent_operations[1].ts < endpoint.recent_operations[10].ts
    /\ endpoint.forced_writes = 2

\* C24: the page-cache estimate of a sample that has container memory is
\* max(0, container memory - resident memory), to the hundredth of a megabyte
\* the sample is rounded to: it is never negative.
C24_PageCacheFloorZero ==
    (last.n > 0 /\ last.mem.has_cgroup) =>
        LET d == last.mem.cgroup_mb - last.mem.rss_mb
            e == IF d > 0 THEN d ELSE 0
        IN  /\ last.mem.page_cache_mb >= 0
            /\ last.mem.page_cache_mb - e \in {-1, 0, 1}

\* C25: the entries the critical path and the spike path dump are entries of
\* earlier calls, the last 5 and the last 10 of them: the entry of the call
\* under way is appended after the branches and is not among them.
C25_DumpsExcludeCurrentEntry ==
    last.n > 0 =>
        LET earlier == SubSeq(appended, 1, Len(appended) - 1)
            ring    == IF Len(earlier) > 20
                       THEN SubSeq(earlier, Len(earlier) - 19, Len(earlier))
                       ELSE earlier
            k5      == IF Len(ring) < 5 THEN Len(ring) ELSE 5
            k10     == IF Len(ring) < 10 THEN Len(ring) ELSE 10
        IN  /\ "critical" \in last.alerts =>
                  last.critical_dump = SubSeq(ring, Len(ring) - k5 + 1, Len(ring))
            /\ "spike" \in last.writes =>
                  last.spike_dump = SubSeq(ring, Len(ring) - k10 + 1, Len(ring))

\* C26: the first log_memory_snapshot call after the monitor was created has no
\* previous sample and reports no spike, whatever the resident memory is.
C26_FirstCallNoSpike ==
    last.n = 1 => "spike" \notin last.alerts

====
